---- MODULE Spec2Model ----
(***************************************************************************)
(* EchoFlow: the request gateway (middleware chain and handlers), the      *)
(* pipeline, post-process and transcription services, and the upstream     *)
(* client, as one state machine per inbound request (Spec: requests one    *)
(* after the other; Concurrent: two requests at the same time); and the    *)
(* functions of the client, the post-processor and the pipeline applied    *)
(* to inputs of their own (Functions).                                     *)
(*                                                                         *)
(* Strings are sequences of one-character strings, so that trimming,       *)
(* prefix tests and quote stripping are computed as the code computes      *)
(* them.  "" is << >>.                                                      *)
(***************************************************************************)
EXTENDS Integers, Sequences, FiniteSets, TLC

(***************************************************************************)
(* strings                                                                 *)
(***************************************************************************)
\* unicode.IsSpace restricted to the characters the inputs use
IsSpace(c) == c \in {" ", "\t", "\n", "\r"}

RECURSIVE TrimLeft(_)
TrimLeft(s) ==
    IF s = << >> THEN << >>
    ELSE IF IsSpace(Head(s)) THEN TrimLeft(Tail(s)) ELSE s

RECURSIVE TrimRight(_)
TrimRight(s) ==
    IF s = << >> THEN << >>
    ELSE IF IsSpace(s[Len(s)]) THEN TrimRight(SubSeq(s, 1, Len(s) - 1)) ELSE s

\* strings.TrimSpace
TrimSpace(s) == TrimRight(TrimLeft(s))

\* strings.HasPrefix
HasPrefix(s, p) == Len(s) >= Len(p) /\ SubSeq(s, 1, Len(p)) = p

\* strings.HasSuffix
HasSuffix(s, p) == Len(s) >= Len(p) /\ SubSeq(s, Len(s) - Len(p) + 1, Len(s)) = p

\* strings.TrimPrefix
TrimPrefix(s, p) == IF HasPrefix(s, p) THEN SubSeq(s, Len(p) + 1, Len(s)) ELSE s

\* strings.TrimSuffix
TrimSuffix(s, p) == IF HasSuffix(s, p) THEN SubSeq(s, 1, Len(s) - Len(p)) ELSE s

EmptyStr == << >>
BearerPrefix == <<"B", "e", "a", "r", "e", "r", " ">>
TokA == <<"t", "A">>
TokB == <<"t", "B">>
ServerKey == <<"s", "k">>

(***************************************************************************)
(* the inputs a request is drawn from                                      *)
(***************************************************************************)
\* the requests the server can be serving at a time
Reqs == {"r1", "r2"}

\* the one request served when requests come one after the other
Serial == {"r1"}

Paths == {"/healthz", "/readyz", "/metrics", "/v1/transcriptions",
          "/v1/post-process", "/v1/pipeline/process", "/nope"}

Methods == {"GET", "POST"}

\* Authorization header lines: has = the header line is in the request,
\* value = its field value.
AuthAbsent == [has |-> FALSE, value |-> EmptyStr]
AuthEmpty == [has |-> TRUE, value |-> EmptyStr]
AuthBlank == [has |-> TRUE, value |-> <<" ">>]
AuthTokA == [has |-> TRUE, value |-> BearerPrefix \o TokA]
AuthTokB == [has |-> TRUE, value |-> BearerPrefix \o TokB]
AuthPadded == [has |-> TRUE, value |-> <<" ">> \o BearerPrefix \o TokA \o <<" ">>]
AuthNoToken == [has |-> TRUE, value |-> BearerPrefix \o <<" ">>]
AuthBasic == [has |-> TRUE, value |-> <<"B", "a", "s", "i", "c", " ">> \o TokA]
AuthLower == [has |-> TRUE, value |-> <<"b", "e", "a", "r", "e", "r", " ">> \o TokA]

AuthHeaders == {AuthAbsent, AuthEmpty, AuthBlank, AuthTokA, AuthTokB, AuthPadded,
                AuthNoToken, AuthBasic, AuthLower}

\* values of the inbound X-Request-Id header as r.Header.Get returns them:
\* "" for no header, a blank value, an identifier, an identifier with
\* surrounding whitespace
InboundID == <<"i", "7">>
RequestIDHeaders == {EmptyStr, <<" ">>, InboundID, <<" ">> \o InboundID \o <<" ">>}

\* identifiers newRequestID can return
GeneratedIDs == {<<"g", "1">>, <<"g", "2">>}

\* the value of the pipeline-fallback counter after which no request arrives
MaxFallbacks == 2

\* config.Config.UpstreamAPIKey: the server fallback credential, "" when unset
ServerKeys == {EmptyStr, ServerKey}

(***************************************************************************)
(* state                                                                   *)
(***************************************************************************)
VARIABLES
    cfgKey,     \* server.cfg.UpstreamAPIKey, fixed at construction
    pc,         \* pc[r]: where request r is in the middleware chain / handler
    in,         \* in[r]: the inbound request (path, method, Authorization)
    ctxKey,     \* ctxKey[r]: the caller credential attached to r's context
    resp,       \* resp[r]: the response written for r
    svc,        \* svc[r]: handlers and services invoked for r, in order
    upCalls,    \* upCalls[r]: the upstream calls made for r, in order
    pl,         \* pl[r]: locals of the service call in progress for r
    mw,         \* mw[r]: what the middleware chain holds for r
    reqBody,    \* reqBody[r]: what the handler read of r's body, and r's multipart form
    fallbacks,  \* the pipeline-fallback counter of the metrics sink
    fnCall      \* a call of a function of the services on its own

vars == <<cfgKey, pc, in, ctxKey, resp, svc, upCalls, pl, mw, reqBody, fallbacks, fnCall>>

NoRequest == [path |-> "", method |-> "", auth |-> AuthAbsent, rid |-> EmptyStr]
NoBody == [k |-> "none"]
NoResponse == [status |-> 0, code |-> "", body |-> NoBody, xRequestID |-> EmptyStr]

\* mw[r]: rid is the request id in the request's context, hdr the
\* X-Request-Id header set on the response writer, fresh the identifier
\* newRequestID returned ("" when it was not called), auth how far
\* authMiddleware got ("pending", "passed", "rejected"), panicked whether
\* recoverMiddleware recovered a panic, log the access-log records written
NoMiddleware ==
    [rid |-> EmptyStr, hdr |-> EmptyStr, fresh |-> EmptyStr, auth |-> "pending",
     panicked |-> FALSE, log |-> << >>]

\* reqBody[r]: m is what readMultipartAudio met, debug the include_debug form
\* value, j what decoding the JSON body met, transcript and debugPrompt the
\* decoded transcript and include_debug_prompt, form the state of
\* r.MultipartForm ("none", "open" while it holds its files, "released"
\* once RemoveAll has run)
NoInput ==
    [m |-> "", debug |-> "", j |-> "", transcript |-> EmptyStr, debugPrompt |-> FALSE,
     form |-> "none"]

\* fnCall when no function is called on its own
NoCall == [fn |-> "none", arg |-> EmptyStr, res |-> EmptyStr, done |-> FALSE]

\* error values: kind "nil" is a nil error
NoErr == [kind |-> "nil", status |-> 0]
\* *openai.Error{StatusCode, Body}
UpstreamErr(s, b) == [kind |-> "upstream", status |-> s, body |-> b]
LocalErr(k) == [kind |-> k, status |-> 0]

\* token usage: absent, or the three counts
NoUsage == << >>

\* pipeline.ProcessResult{}
EmptyResult ==
    [raw |-> EmptyStr, final |-> EmptyStr, status |-> "", usage |-> NoUsage]

NoTr == [text |-> EmptyStr, err |-> NoErr]
NoPost == [transcript |-> EmptyStr, usage |-> NoUsage, err |-> NoErr]

\* pl[r]: the service a handler called (k), how far it got (stage: "none",
\* "transcribing", "postprocessing", "returned"), what each stage
\* returned, what the service returned (result, err), and the debug flag
\* the pipeline (includeDebug) and the post-processor (includeDebugPrompt)
\* were given
NoLocals ==
    [k |-> "none", stage |-> "none", tr |-> NoTr, post |-> NoPost,
     result |-> EmptyResult, err |-> NoErr, includeDebug |-> FALSE,
     includeDebugPrompt |-> FALSE]

(***************************************************************************)
(* request-scoped credential (openai.WithRequestAPIKey /                   *)
(* openai.RequestAPIKeyFromContext): a value stored in, and read back      *)
(* from, the request's context.                                            *)
(***************************************************************************)
WithRequestAPIKey(ctx, token) == token

RequestAPIKeyFromContext(ctx) == ctx

(***************************************************************************)
(* authentication                                                          *)
(***************************************************************************)
\* http.Header.Get: "" for a header that is absent, its value otherwise
HeaderGet(h) == IF h.has THEN h.value ELSE EmptyStr

\* extractBearerToken taking a header of another scheme for no header
extractBearerToken_otherSchemeAbsent(header) ==
    LET h == TrimSpace(header) IN
    IF h = EmptyStr \/ ~HasPrefix(h, BearerPrefix)
    THEN [token |-> EmptyStr, hasHeader |-> FALSE, ok |-> TRUE]
    ELSE LET t == TrimSpace(TrimPrefix(h, BearerPrefix)) IN
         IF t = EmptyStr THEN [token |-> EmptyStr, hasHeader |-> TRUE, ok |-> FALSE]
         ELSE [token |-> t, hasHeader |-> TRUE, ok |-> TRUE]

extractBearerToken(header) ==
    LET h == TrimSpace(header) IN
    IF h = EmptyStr THEN [token |-> EmptyStr, hasHeader |-> FALSE, ok |-> TRUE]
    ELSE IF ~HasPrefix(h, BearerPrefix)
         THEN [token |-> EmptyStr, hasHeader |-> TRUE, ok |-> FALSE]
    ELSE LET t == TrimSpace(TrimPrefix(h, BearerPrefix)) IN
         IF t = EmptyStr THEN [token |-> EmptyStr, hasHeader |-> TRUE, ok |-> FALSE]
         ELSE [token |-> t, hasHeader |-> TRUE, ok |-> TRUE]

isPublicPath(path) == path \in {"/healthz", "/readyz", "/metrics"}

\* authMiddleware without the check for a missing credential
authDecision_noMissingCheck(header, path, key) ==
    LET e == extractBearerToken(header) IN
    IF e.hasHeader /\ ~e.ok
    THEN [pass |-> FALSE, token |-> EmptyStr,
          message |-> "Authorization must be Bearer <groq_cloud_token>"]
    ELSE [pass |-> TRUE, token |-> e.token, message |-> ""]

\* the decision of authMiddleware: reject with 401, or pass on with the
\* caller credential (if any) attached to the context
authDecision(header, path, key) ==
    LET e == extractBearerToken(header) IN
    IF e.hasHeader /\ ~e.ok
    THEN [pass |-> FALSE, token |-> EmptyStr,
          message |-> "Authorization must be Bearer <groq_cloud_token>"]
    ELSE IF ~isPublicPath(path) /\ e.token = EmptyStr /\ key = EmptyStr
         THEN [pass |-> FALSE, token |-> EmptyStr,
               message |-> "missing Groq Cloud bearer token"]
    ELSE [pass |-> TRUE, token |-> e.token, message |-> ""]

\* nil details of an error envelope
NoDetails == [k |-> "none"]

\* detailsForError: the error text and, for an upstream error, its status
\* and, when it is not empty, its body excerpt
detailsForError(err) ==
    IF err.kind = "nil" THEN NoDetails
    ELSE IF err.kind = "upstream"
         THEN IF err.body # EmptyStr
              THEN [k |-> "details", error |-> err.kind, upstream_status |-> err.status,
                    upstream_body |-> err.body]
              ELSE [k |-> "details", error |-> err.kind, upstream_status |-> err.status]
    ELSE [k |-> "details", error |-> err.kind]

\* the arguments of a writeError call: status, code, message and details;
\* writeError fills in the request id
ErrorWithDetails(status, code, message, details) ==
    [status |-> status, code |-> code, xRequestID |-> EmptyStr,
     body |-> [k |-> "error", message |-> message, details |-> details,
               request_id |-> EmptyStr]]

ErrorResponse(status, code, message) == ErrorWithDetails(status, code, message, NoDetails)

\* writeError: sets the X-Request-Id header again when the context holds a
\* request id, and writes the envelope with that request id
writeError(rsp, rid, hdr) ==
    [rsp EXCEPT !.xRequestID = IF rid # EmptyStr THEN rid ELSE hdr,
                !.body = [@ EXCEPT !.request_id = rid]]

\* writeJSON of a success body: the headers are those set so far
writeJSON(rsp, hdr) ==
    [status |-> rsp.status, code |-> rsp.code, body |-> rsp.body, xRequestID |-> hdr]

(***************************************************************************)
(* upstream client                                                         *)
(***************************************************************************)
\* Client.apiKey as set by openai.New from the configured key
ClientAPIKey == TrimSpace(cfgKey)

\* the client putting the credential of one caller on every request
AuthorizationSent_oneCaller(ctx) == BearerPrefix \o TokA

\* the Authorization header the client puts on a request
AuthorizationSent(ctx) == BearerPrefix \o ClientAPIKey

\* what the upstream does with a call: the round trip fails (no response),
\* or a response with a status arrives
Failures == {"neterr", "deadline", "canceled"}
NoPayload == [k |-> "none", data |-> EmptyStr]
Fail(e) == [kind |-> "fail", err |-> e, status |-> 0, payload |-> NoPayload]
Resp(s, p) == [kind |-> "resp", err |-> "", status |-> s, payload |-> p]

\* a response body the client does not parse: data is the body
RawBody(d) == [k |-> "raw", data |-> d]

\* a response whose body cannot be read to the end: data is what io.ReadAll
\* had read when the read failed
ReadErrBody == [k |-> "readerr", data |-> <<"e">>]

\* bodies of the error responses of the upstream
ErrorBodies == {EmptyStr, <<" ", "e", "r", "r", "\n">>}

\* statuses other than 200 the upstream answers with
OtherStatuses == {201, 299, 429, 500}

\* the length truncateBody cuts a body to
MaxUpstreamBody == 4096

\* truncateBody keeping everything
truncateBody_noCap(s) == TrimSpace(s)

truncateBody(s) ==
    LET t == TrimSpace(s) IN
    IF Len(t) <= MaxUpstreamBody THEN t
    ELSE SubSeq(t, 1, MaxUpstreamBody) \o <<".", ".", ".">>

\* `defer c.observe(endpoint, statusCode, time.Since(started))`: the
\* arguments of a deferred call are evaluated when the defer statement runs,
\* where statusCode still holds its initial value.
DeferredStatus(atDefer, atReturn) == atDefer

\* r.Context(): the context of the inbound request, done once the caller
\* has gone away
RequestContext == "request"

\* a context with a deadline that is no child of the context it is given
WithTimeout_background(parent) == [parent |-> "background", deadline |-> TRUE]

\* context.WithTimeout(ctx, timeout): a child of ctx with a deadline, done
\* when ctx is done or when the deadline has passed
WithTimeout(parent) == [parent |-> parent, deadline |-> TRUE]

\* an upstream call in flight, and the same call once it has returned: cx
\* is the context of its http request, canceled whether the inbound request
\* was canceled while the call was in flight
CallStarted(ep, ctx) ==
    [ep |-> ep, auth |-> AuthorizationSent(ctx), done |-> FALSE, got |-> 0,
     obs |-> << >>, payload |-> NoPayload, ret |-> [err |-> NoErr],
     cx |-> WithTimeout(RequestContext), canceled |-> FALSE]

\* http.Client.Do on a request made with NewRequestWithContext: once the
\* context of the request is done the round trip is abandoned and the
\* context's error returned
Delivered(call, out) ==
    (call.canceled /\ call.cx.parent = RequestContext) => out = Fail("canceled")

\* the upstream call in flight for a request
InFlight(calls) == calls[Len(calls)]

\* the call once it has returned ret for the outcome out
CallReturned(call, out, ret) ==
    [call EXCEPT !.done = TRUE,
                 !.got = out.status,
                 !.obs = Append(call.obs, DeferredStatus(0, out.status)),
                 !.payload = out.payload,
                 !.ret = ret]

\* Client.CheckModels: the error it returns.  The body of a response other
\* than 200 is read ignoring a read error.
CheckModels(out) ==
    IF out.kind = "fail" THEN LocalErr(out.err)
    ELSE IF out.status # 200 THEN UpstreamErr(out.status, truncateBody(out.payload.data))
    ELSE NoErr

ModelsOutcomes ==
    {Fail(e) : e \in Failures}
    \cup {Resp(200, NoPayload)}
    \cup {Resp(s, RawBody(b)) : s \in {204, 401, 500}, b \in ErrorBodies}
    \cup {Resp(500, ReadErrBody)}

\* the call list after a call has started / after the last call has returned
StartedCalls(calls, ep, ctx) == Append(calls, CallStarted(ep, ctx))

\* the call made a second time when the round trip failed
EndedCalls_again(calls, out, ret) ==
    LET ended == [calls EXCEPT ![Len(calls)] = CallReturned(@, out, ret)] IN
    IF out.kind = "fail" THEN Append(ended, ended[Len(ended)]) ELSE ended

EndedCalls(calls, out, ret) == [calls EXCEPT ![Len(calls)] = CallReturned(@, out, ret)]

(***************************************************************************)
(* gateway: arrival, authentication, routing                               *)
(***************************************************************************)
\* a request arrives on an idle connection
Arrive(r) ==
    /\ pc[r] = "idle"
    /\ fallbacks < MaxFallbacks
    /\ \E p \in Paths, m \in Methods, a \in AuthHeaders, i \in RequestIDHeaders :
          in' = [in EXCEPT ![r] = [path |-> p, method |-> m, auth |-> a, rid |-> i]]
    /\ pc' = [pc EXCEPT ![r] = "requestID"]
    /\ UNCHANGED <<cfgKey, ctxKey, resp, svc, upCalls, pl, mw, reqBody, fallbacks, fnCall>>

\* the handler chain writes rsp and returns to loggingMiddleware: an error
\* envelope goes through writeError, everything else through writeJSON
Respond(r, rsp) ==
    /\ resp' = [resp EXCEPT ![r] =
                   IF rsp.body.k = "error" THEN writeError(rsp, mw[r].rid, mw[r].hdr)
                   ELSE writeJSON(rsp, mw[r].hdr)]
    /\ pc' = [pc EXCEPT ![r] = "done"]

\* requestIDMiddleware using the inbound header as it came
requestIDChosen_untrimmed(header, fresh) ==
    IF TrimSpace(header) = EmptyStr THEN fresh ELSE header

\* requestIDMiddleware: the request id, given the inbound header and what
\* newRequestID returns when called
requestIDChosen(header, fresh) ==
    LET requestID == TrimSpace(header) IN
    IF requestID = EmptyStr THEN fresh ELSE requestID

requestIDMiddleware(r) ==
    /\ pc[r] = "requestID"
    /\ \E g \in GeneratedIDs :
          LET called == TrimSpace(in[r].rid) = EmptyStr
              requestID == requestIDChosen(in[r].rid, g)
          IN mw' = [mw EXCEPT ![r] = [@ EXCEPT !.rid = requestID, !.hdr = requestID,
                                                !.fresh = IF called THEN g ELSE EmptyStr]]
    /\ pc' = [pc EXCEPT ![r] = "auth"]
    /\ UNCHANGED <<cfgKey, in, ctxKey, resp, svc, upCalls, pl, reqBody, fallbacks, fnCall>>

authMiddleware(r) ==
    /\ pc[r] = "auth"
    /\ LET d == authDecision(HeaderGet(in[r].auth), in[r].path, cfgKey) IN
          IF ~d.pass
          THEN /\ Respond(r, ErrorResponse(401, "unauthorized", d.message))
               /\ mw' = [mw EXCEPT ![r].auth = "rejected"]
               /\ UNCHANGED ctxKey
          ELSE /\ ctxKey' = [ctxKey EXCEPT ![r] =
                                IF d.token # EmptyStr
                                THEN WithRequestAPIKey(@, d.token) ELSE @]
               /\ mw' = [mw EXCEPT ![r].auth = "passed"]
               /\ pc' = [pc EXCEPT ![r] = "route"]
               /\ UNCHANGED resp
    /\ UNCHANGED <<cfgKey, in, svc, upCalls, pl, reqBody, fallbacks, fnCall>>

\* cleanupMultipartForm: RemoveAll on a form that is not nil
cleanupMultipartForm(form) == IF form # "none" THEN "released" ELSE form

\* the response recoverMiddleware writes for a recovered panic, with the
\* message and details of a mapped error
panicResponse_mapped(rec) ==
    ErrorWithDetails(500, "internal_error", "request failed", detailsForError(LocalErr(rec)))

\* the response recoverMiddleware writes for a recovered panic
panicResponse(rec) == ErrorResponse(500, "internal_error", "internal server error")

\* what a panic can carry
PanicValues == {"runtime error", "abort"}

\* where recoverMiddleware's next.ServeHTTP is when a panic can be raised:
\* in authentication, in route dispatch, in a handler, in a service call
PanicPoints ==
    {"auth", "route", "handleHealthz", "handleReadyz", "metricsRoute",
     "handleTranscriptions", "handlePostProcess", "handlePipelineProcess",
     "readyz_CheckModels", "tr_Transcribe", "pp_Process", "pipe_Transcribe",
     "pipe_PostProcess"}

\* recoverMiddleware when next.ServeHTTP panics: the deferred calls of the
\* handler run while the panic unwinds, then the deferred function of
\* recoverMiddleware recovers the panic and writes the internal error
recoverMiddleware(r) ==
    /\ pc[r] \in PanicPoints
    /\ \E rec \in PanicValues : Respond(r, panicResponse(rec))
    /\ mw' = [mw EXCEPT ![r].panicked = TRUE]
    /\ reqBody' = [reqBody EXCEPT ![r].form = cleanupMultipartForm(@)]
    /\ UNCHANGED <<cfgKey, in, ctxKey, svc, upCalls, pl, fallbacks, fnCall>>

\* the status loggingMiddleware records: 200 when none was written
loggedStatus(status) == IF status = 0 THEN 200 ELSE status

\* loggingMiddleware after next.ServeHTTP has returned
loggingMiddleware(r) ==
    /\ pc[r] = "done"
    /\ mw' = [mw EXCEPT ![r].log =
                 Append(@, [request_id |-> mw[r].rid, method |-> in[r].method,
                            path |-> in[r].path,
                            status |-> loggedStatus(resp[r].status)])]
    /\ pc' = [pc EXCEPT ![r] = "logged"]
    /\ UNCHANGED <<cfgKey, in, ctxKey, resp, svc, upCalls, pl, reqBody, fallbacks, fnCall>>

\* the chi router of NewServer: the handler a path and method dispatch to
RouteTarget(path, method) ==
    CASE path = "/healthz" -> IF method = "GET" THEN "handleHealthz" ELSE "405"
      [] path = "/readyz" -> IF method = "GET" THEN "handleReadyz" ELSE "405"
      [] path = "/metrics" -> "metricsRoute"
      [] path = "/v1/transcriptions" ->
            IF method = "POST" THEN "handleTranscriptions" ELSE "405"
      [] path = "/v1/post-process" ->
            IF method = "POST" THEN "handlePostProcess" ELSE "405"
      [] path = "/v1/pipeline/process" ->
            IF method = "POST" THEN "handlePipelineProcess" ELSE "405"
      [] OTHER -> "404"

Route(r) ==
    /\ pc[r] = "route"
    /\ LET t == RouteTarget(in[r].path, in[r].method) IN
          IF t = "404"
          THEN Respond(r, ErrorResponse(404, "not_found", "route not found")) /\ UNCHANGED svc
          ELSE IF t = "405"
          THEN /\ Respond(r, ErrorResponse(405, "method_not_allowed", "method not allowed"))
               /\ UNCHANGED svc
          ELSE /\ pc' = [pc EXCEPT ![r] = t]
               /\ svc' = [svc EXCEPT ![r] = Append(@, t)]
               /\ UNCHANGED resp
    /\ UNCHANGED <<cfgKey, in, ctxKey, upCalls, pl, mw, reqBody, fallbacks, fnCall>>

handleHealthz(r) ==
    /\ pc[r] = "handleHealthz"
    /\ Respond(r, [status |-> 200, code |-> "", body |-> [k |-> "health", ok |-> TRUE]])
    /\ UNCHANGED <<cfgKey, in, ctxKey, svc, upCalls, pl, mw, reqBody, fallbacks, fnCall>>

\* promhttp's handler for the metrics registry
metricsRoute(r) ==
    /\ pc[r] = "metricsRoute"
    /\ Respond(r, [status |-> 200, code |-> "", body |-> [k |-> "metrics"]])
    /\ UNCHANGED <<cfgKey, in, ctxKey, svc, upCalls, pl, mw, reqBody, fallbacks, fnCall>>

ReadyBody == [k |-> "ready", ok |-> TRUE]

\* handleReadyz decides whether to probe the upstream
readyzSkipsProbe(key, ctx) == key = EmptyStr /\ RequestAPIKeyFromContext(ctx) = EmptyStr

handleReadyz(r) ==
    /\ pc[r] = "handleReadyz"
    /\ IF readyzSkipsProbe(cfgKey, ctxKey[r])
       THEN /\ Respond(r, [status |-> 200, code |-> "", body |-> ReadyBody])
            /\ UNCHANGED <<svc, upCalls>>
       ELSE /\ pc' = [pc EXCEPT ![r] = "readyz_CheckModels"]
            /\ svc' = [svc EXCEPT ![r] = Append(@, "CheckModels")]
            /\ upCalls' = [upCalls EXCEPT ![r] = StartedCalls(@, "models", ctxKey[r])]
            /\ UNCHANGED resp
    /\ pl' = [pl EXCEPT ![r] = [NoLocals EXCEPT !.k = "readyz"]]
    /\ UNCHANGED <<cfgKey, in, ctxKey, mw, reqBody, fallbacks, fnCall>>

\* CheckModels returns to handleReadyz
readyzResponse(err) ==
    IF err.kind # "nil"
    THEN ErrorWithDetails(503, "not_ready", "upstream check failed", detailsForError(err))
    ELSE [status |-> 200, code |-> "", body |-> ReadyBody]

handleReadyzReturn(r) ==
    /\ pc[r] = "readyz_CheckModels"
    /\ \E out \in ModelsOutcomes :
          /\ Delivered(InFlight(upCalls[r]), out)
          /\ upCalls' = [upCalls EXCEPT ![r] =
                            EndedCalls(@, out, [err |-> CheckModels(out)])]
          /\ pl' = [pl EXCEPT ![r] = [@ EXCEPT !.stage = "returned", !.err = CheckModels(out)]]
          /\ Respond(r, readyzResponse(CheckModels(out)))
    /\ UNCHANGED <<cfgKey, in, ctxKey, svc, mw, reqBody, fallbacks, fnCall>>

(***************************************************************************)
(* upstream client: transcription and chat                                 *)
(***************************************************************************)
\* strings.FieldsFunc(s, f): the maximal runs of characters not in seps
RECURSIVE FieldsFrom(_, _, _)
FieldsFrom(s, seps, cur) ==
    IF s = << >> THEN (IF cur = << >> THEN << >> ELSE <<cur>>)
    ELSE IF Head(s) \in seps
         THEN (IF cur = << >> THEN << >> ELSE <<cur>>) \o FieldsFrom(Tail(s), seps, << >>)
    ELSE FieldsFrom(Tail(s), seps, Append(cur, Head(s)))

FieldsFunc(s, seps) == FieldsFrom(s, seps, << >>)

\* strings.Join
RECURSIVE Join(_, _)
Join(parts, sep) ==
    IF parts = << >> THEN << >>
    ELSE IF Len(parts) = 1 THEN parts[1]
    ELSE parts[1] \o sep \o Join(Tail(parts), sep)

joinLines(s) == Join(FieldsFunc(s, {"\n", "\r"}), <<" ">>)

\* A transcription response body: data is the body, json says whether
\* json.Unmarshal accepts it, text is the `text` field it yields.
PlainBody(d) == [k |-> "transcript", data |-> d, json |-> FALSE, text |-> EmptyStr]

JSONTextBody(t) ==
    [k |-> "transcript",
     data |-> <<"{", "\"", "t", "e", "x", "t", "\"", ":", "\"">> \o t \o <<"\"", "}">>,
     json |-> TRUE, text |-> t]

Hi == <<"h", "i">>
Yo == <<"y", "o">>

\* a JSON object without a `text` field
JSONObjectBody == [k |-> "transcript", data |-> <<"{", "}">>, json |-> TRUE, text |-> EmptyStr]

TranscriptBodies ==
    {JSONTextBody(Hi), JSONTextBody(<<" ">> \o Hi \o <<" ">>), JSONTextBody(<<" ">>),
     JSONTextBody(EmptyStr), JSONObjectBody, PlainBody(Hi \o <<"\n">> \o Yo),
     PlainBody(<<"\r", "\n">> \o Hi \o <<"\n", "\r", "\n">> \o Yo \o <<" ", "\n">>),
     PlainBody(<<"\n">>), PlainBody(<<" ", "\r">>), PlainBody(EmptyStr)}

\* parseTranscript without the plain-text interpretation
parseTranscript_noPlainText(body) ==
    IF body.json /\ body.text # EmptyStr THEN [text |-> body.text, err |-> NoErr]
    ELSE [text |-> EmptyStr, err |-> LocalErr("parse")]

parseTranscript(body) ==
    IF body.json /\ body.text # EmptyStr THEN [text |-> body.text, err |-> NoErr]
    ELSE LET plainText == TrimSpace(joinLines(body.data)) IN
         IF plainText = EmptyStr THEN [text |-> EmptyStr, err |-> LocalErr("parse")]
         ELSE [text |-> plainText, err |-> NoErr]

\* Client.Transcribe: what it returns for an outcome of the round trip
ClientTranscribe(out) ==
    IF out.kind = "fail" THEN [text |-> EmptyStr, err |-> LocalErr(out.err)]
    ELSE IF out.payload.k = "readerr" THEN [text |-> EmptyStr, err |-> LocalErr("neterr")]
    ELSE IF out.status # 200
         THEN [text |-> EmptyStr,
               err |-> UpstreamErr(out.status, truncateBody(out.payload.data))]
    ELSE parseTranscript(out.payload)

TranscribeOutcomes ==
    {Fail(e) : e \in Failures}
    \cup {Resp(200, b) : b \in TranscriptBodies \cup {ReadErrBody}}
    \cup {Resp(s, RawBody(b)) : s \in OtherStatuses, b \in ErrorBodies}
    \cup {Resp(500, ReadErrBody)}

Usages == {NoUsage, <<0, 0, 0>>, <<5, 2, 7>>}

Quote == <<"\"">>
EMPTY == <<"E", "M", "P", "T", "Y">>

\* message contents an upstream model may return
Contents ==
    {Hi, <<" ">> \o Hi \o <<" ">>, Quote \o Hi \o Quote, EMPTY, Quote \o EMPTY \o Quote,
     <<" ">>, EmptyStr}

\* A chat response body: valid says whether json.Unmarshal accepts it,
\* choices are the message contents, usage the usage object if any.
ChatBody(choices, usage) ==
    [k |-> "chat", valid |-> TRUE, choices |-> choices, usage |-> usage]

InvalidChatBody == [k |-> "chat", valid |-> FALSE, choices |-> << >>, usage |-> NoUsage]

ChatBodies ==
    {ChatBody(<<c>>, u) : c \in Contents, u \in Usages}
    \cup {ChatBody(<< >>, NoUsage), ChatBody(<<Yo, Hi>>, <<5, 2, 7>>),
          ChatBody(<<EmptyStr, Hi>>, NoUsage), ChatBody(<<Hi, EmptyStr>>, NoUsage),
          InvalidChatBody}

NoChat == [content |-> EmptyStr, usage |-> NoUsage]

\* parseChatCompletion reading the last choice instead of the first
parseChatCompletion_lastChoice(body) ==
    IF ~body.valid THEN [resp |-> NoChat, err |-> LocalErr("parse")]
    ELSE IF Len(body.choices) = 0 THEN [resp |-> NoChat, err |-> LocalErr("parse")]
    ELSE LET content == body.choices[Len(body.choices)] IN
         IF content = EmptyStr THEN [resp |-> NoChat, err |-> LocalErr("parse")]
         ELSE [resp |-> [content |-> content, usage |-> body.usage], err |-> NoErr]

parseChatCompletion(body) ==
    IF ~body.valid THEN [resp |-> NoChat, err |-> LocalErr("parse")]
    ELSE IF Len(body.choices) = 0 THEN [resp |-> NoChat, err |-> LocalErr("parse")]
    ELSE LET content == body.choices[1] IN
         IF content = EmptyStr THEN [resp |-> NoChat, err |-> LocalErr("parse")]
         ELSE [resp |-> [content |-> content, usage |-> body.usage], err |-> NoErr]

\* Client.ChatCompletion
ClientChatCompletion(out) ==
    IF out.kind = "fail" THEN [resp |-> NoChat, err |-> LocalErr(out.err)]
    ELSE IF out.payload.k = "readerr" THEN [resp |-> NoChat, err |-> LocalErr("neterr")]
    ELSE IF out.status # 200
         THEN [resp |-> NoChat,
               err |-> UpstreamErr(out.status, truncateBody(out.payload.data))]
    ELSE parseChatCompletion(out.payload)

ChatOutcomes ==
    {Fail(e) : e \in Failures}
    \cup {Resp(200, b) : b \in ChatBodies \cup {ReadErrBody}}
    \cup {Resp(s, RawBody(b)) : s \in OtherStatuses, b \in ErrorBodies}
    \cup {Resp(500, ReadErrBody)}

(***************************************************************************)
(* services                                                                *)
(***************************************************************************)
\* transcription.Service.Transcribe, given what the client's call does
TranscriptionTranscribe(out) ==
    LET c == ClientTranscribe(out) IN
    IF c.err.kind # "nil" THEN [text |-> EmptyStr, err |-> c.err]
    ELSE [text |-> TrimSpace(c.text), err |-> NoErr]

\* sanitizePostProcessedTranscript removing the quotes without the check
\* that the text ends with one too
sanitizePostProcessedTranscript_anyQuote(value) ==
    LET result == TrimSpace(value) IN
    IF result = EmptyStr THEN EmptyStr
    ELSE LET unq == IF Len(result) > 1
                    THEN TrimSpace(TrimPrefix(TrimSuffix(result, Quote), Quote))
                    ELSE result
         IN IF unq = EMPTY THEN EmptyStr ELSE unq

sanitizePostProcessedTranscript(value) ==
    LET result == TrimSpace(value) IN
    IF result = EmptyStr THEN EmptyStr
    ELSE LET unq == IF HasPrefix(result, Quote) /\ HasSuffix(result, Quote)
                       /\ Len(result) > 1
                    THEN TrimSpace(TrimPrefix(TrimSuffix(result, Quote), Quote))
                    ELSE result
         IN IF unq = EMPTY THEN EmptyStr ELSE unq

\* strings.ToLower on the letters the vocabularies use
ToLowerChar(c) ==
    CASE c = "A" -> "a"
      [] c = "B" -> "b"
      [] c = "L" -> "l"
      [] c = "O" -> "o"
      [] OTHER -> c

ToLower(s) == [i \in 1..Len(s) |-> ToLowerChar(s[i])]

\* the loop of mergedVocabularyTerms over the fields still to visit, with
\* the keys seen and the terms kept so far
RECURSIVE mergeTerms(_, _, _)
mergeTerms(fields, seen, terms) ==
    IF fields = << >> THEN terms
    ELSE LET term == TrimSpace(Head(fields))
             key == ToLower(term)
         IN IF term = EmptyStr THEN mergeTerms(Tail(fields), seen, terms)
            ELSE IF key \in seen THEN mergeTerms(Tail(fields), seen, terms)
            ELSE mergeTerms(Tail(fields), seen \cup {key}, Append(terms, term))

\* mergedVocabularyTerms comparing the terms as they are written
mergedVocabularyTerms_caseSensitive(rawVocabulary) ==
    LET fields == FieldsFunc(rawVocabulary, {"\n", ",", ";"})
        RECURSIVE loop(_, _, _)
        loop(fs, seen, terms) ==
            IF fs = << >> THEN terms
            ELSE LET term == TrimSpace(Head(fs)) IN
                 IF term = EmptyStr \/ term \in seen THEN loop(Tail(fs), seen, terms)
                 ELSE loop(Tail(fs), seen \cup {term}, Append(terms, term))
    IN loop(fields, {}, << >>)

mergedVocabularyTerms(rawVocabulary) ==
    mergeTerms(FieldsFunc(rawVocabulary, {"\n", ",", ";"}), {}, << >>)

\* postprocess.Service.Process with the debug prompt in its result when the
\* flag asks for it
PostProcessProcess_debugPrompt(inp, out) ==
    LET c == ClientChatCompletion(out) IN
    IF c.err.kind # "nil" THEN [transcript |-> EmptyStr, usage |-> NoUsage, err |-> c.err]
    ELSE [transcript |-> IF inp.IncludeDebugPrompt
                         THEN <<"d", ":">> \o sanitizePostProcessedTranscript(c.resp.content)
                         ELSE sanitizePostProcessedTranscript(c.resp.content),
          usage |-> IF c.resp.usage # NoUsage
                    THEN <<c.resp.usage[1], c.resp.usage[2], c.resp.usage[3]>>
                    ELSE NoUsage,
          err |-> NoErr]

\* postprocess.Service.Process, given its input (inp) and what the client's
\* chat call does
PostProcessProcess(inp, out) ==
    LET c == ClientChatCompletion(out) IN
    IF c.err.kind # "nil" THEN [transcript |-> EmptyStr, usage |-> NoUsage, err |-> c.err]
    ELSE [transcript |-> sanitizePostProcessedTranscript(c.resp.content),
          usage |-> IF c.resp.usage # NoUsage
                    THEN <<c.resp.usage[1], c.resp.usage[2], c.resp.usage[3]>>
                    ELSE NoUsage,
          err |-> NoErr]

StatusFailed == "Post-processing failed, using raw transcript"
StatusSucceeded == "Post-processing succeeded"


\* Process without the fallback branch: the post-processor's (empty) result
\* is used although it failed
pipelineResult_noFallback(rawTranscript, post) ==
    [raw |-> rawTranscript, final |-> TrimSpace(post.transcript),
     status |-> IF post.err.kind # "nil" THEN StatusFailed ELSE StatusSucceeded,
     usage |-> post.usage]

\* Process forgetting to forward the usage on success
pipelineResult_dropsUsage(rawTranscript, post) ==
    IF post.err.kind # "nil"
    THEN [raw |-> rawTranscript, final |-> rawTranscript, status |-> StatusFailed,
          usage |-> NoUsage]
    ELSE [raw |-> rawTranscript, final |-> TrimSpace(post.transcript),
          status |-> StatusSucceeded, usage |-> NoUsage]

\* pipeline.Service.Process after the post-processing stage has returned
pipelineResult(rawTranscript, post) ==
    IF post.err.kind # "nil"
    THEN [raw |-> rawTranscript, final |-> rawTranscript, status |-> StatusFailed,
          usage |-> NoUsage]
    ELSE [raw |-> rawTranscript, final |-> TrimSpace(post.transcript),
          status |-> StatusSucceeded, usage |-> post.usage]

\* Process returning the error of the post-processing stage
pipelineError_surfacesPost(tr, post) ==
    IF tr.err.kind # "nil" THEN tr.err ELSE post.err

\* pipeline.Service.Process: the error it returns, given what its stages
\* returned
pipelineError(tr, post) == IF tr.err.kind # "nil" THEN tr.err ELSE NoErr

\* Process ignoring the transcription error
pipelineContinues_always(tr) == TRUE

\* pipeline.Service.Process after the transcription stage has returned:
\* whether it goes on to the post-processing stage
pipelineContinues(tr) == tr.err.kind = "nil"

\* Process taking the total before the post-processing stage
pipelineTimings_totalBeforePostProcessing(clock, postFailed) ==
    [transcription |-> clock[3] - clock[2],
     postprocessing |-> clock[5] - clock[4],
     total |-> clock[4] - clock[1]]

\* pipeline.Service.Process: the timings of its result, given what the
\* clock shows at each of its readings: started, transcriptionStarted,
\* time.Since after the transcription stage, postProcessingStarted,
\* time.Since after the post-processing stage, time.Since(started) in the
\* result literal, and time.Since(started) again on success
pipelineTimings(clock, postFailed) ==
    [transcription |-> clock[3] - clock[2],
     postprocessing |-> clock[5] - clock[4],
     total |-> IF postFailed THEN clock[6] - clock[1] ELSE clock[7] - clock[1]]

(***************************************************************************)
(* handlers of the /v1 endpoints                                           *)
(***************************************************************************)
\* toModelTokenUsage reporting a usage of all zeros as absent
toModelTokenUsage_zeroIsAbsent(u) ==
    IF u = NoUsage \/ u = <<0, 0, 0>> THEN NoUsage ELSE <<u[1], u[2], u[3]>>

\* toModelTokenUsage: nil for nil, else a copy of the three counts
toModelTokenUsage(u) == IF u = NoUsage THEN NoUsage ELSE <<u[1], u[2], u[3]>>

\* writeMappedError answering a cancellation as a timeout
writeMappedError_canceledAsTimeout(err) ==
    CASE err.kind = "upstream" ->
            ErrorWithDetails(502, "upstream_request_failed", "upstream request failed",
                             detailsForError(err))
      [] err.kind \in {"deadline", "canceled"} ->
            ErrorWithDetails(504, "timeout", "request timed out", detailsForError(err))
      [] OTHER ->
            ErrorWithDetails(500, "internal_error", "request failed", detailsForError(err))

\* writeMappedError: the status and code an error of a service is answered with
writeMappedError(err) ==
    CASE err.kind = "upstream" ->
            ErrorWithDetails(502, "upstream_request_failed", "upstream request failed",
                             detailsForError(err))
      [] err.kind = "deadline" ->
            ErrorWithDetails(504, "timeout", "request timed out", detailsForError(err))
      [] err.kind = "canceled" ->
            ErrorWithDetails(499, "canceled", "request canceled", detailsForError(err))
      [] OTHER ->
            ErrorWithDetails(500, "internal_error", "request failed", detailsForError(err))

\* what readMultipartAudio meets: the form parsed with its file, a body
\* over the limit, a form parsed without a `file` part, a body that is no
\* multipart form
MultipartOutcomes == {"ok", "too_large", "no_file", "bad_form"}

\* readMultipartAudio: the form it returns, r.MultipartForm once
\* ParseMultipartForm has succeeded and nil before
readMultipartAudio(m) == IF m \in {"ok", "no_file"} THEN "open" ELSE "none"

handleMultipartReadError(m) ==
    CASE m = "too_large" ->
            ErrorResponse(413, "request_too_large", "request exceeds MaxUploadBytes bytes")
      [] m = "no_file" ->
            ErrorResponse(400, "invalid_request", "multipart field 'file' is required")
      [] OTHER -> ErrorResponse(400, "invalid_request", "invalid multipart form data")

\* handleTranscriptions up to the call of Transcription.Transcribe: the
\* cleanup of the form is deferred only after the error check
handleTranscriptions(r) ==
    /\ pc[r] = "handleTranscriptions"
    /\ \E m \in MultipartOutcomes :
          /\ reqBody' = [reqBody EXCEPT ![r] =
                         [NoInput EXCEPT !.m = m, !.form = readMultipartAudio(m)]]
          /\ IF m # "ok"
             THEN /\ Respond(r, handleMultipartReadError(m))
                  /\ UNCHANGED <<svc, upCalls, pl>>
             ELSE /\ pc' = [pc EXCEPT ![r] = "tr_Transcribe"]
                  /\ svc' = [svc EXCEPT ![r] = Append(@, "Transcription.Transcribe")]
                  /\ upCalls' = [upCalls EXCEPT ![r] =
                                    StartedCalls(@, "audio_transcriptions", ctxKey[r])]
                  /\ pl' = [pl EXCEPT ![r] =
                               [NoLocals EXCEPT !.k = "transcription",
                                                !.stage = "transcribing"]]
                  /\ UNCHANGED resp
    /\ UNCHANGED <<cfgKey, in, ctxKey, mw, fallbacks, fnCall>>

transcriptionResponse(tr) ==
    IF tr.err.kind # "nil" THEN writeMappedError(tr.err)
    ELSE [status |-> 200, code |-> "", body |-> [k |-> "text", text |-> tr.text]]

handleTranscriptionsReturn(r) ==
    /\ pc[r] = "tr_Transcribe"
    /\ \E out \in TranscribeOutcomes :
          LET tr == TranscriptionTranscribe(out) IN
          /\ Delivered(InFlight(upCalls[r]), out)
          /\ upCalls' = [upCalls EXCEPT ![r] = EndedCalls(@, out, ClientTranscribe(out))]
          /\ pl' = [pl EXCEPT ![r] = [@ EXCEPT !.stage = "returned", !.tr = tr, !.err = tr.err]]
          /\ Respond(r, transcriptionResponse(tr))
    /\ reqBody' = [reqBody EXCEPT ![r].form = cleanupMultipartForm(@)]
    /\ UNCHANGED <<cfgKey, in, ctxKey, svc, mw, fallbacks, fnCall>>

\* what decoding the JSON body of /v1/post-process meets: a request, a body
\* that is no JSON, a field the request does not have, a second value after
\* the request, a body over maxJSONBodyBytes
JSONOutcomes == {"ok", "malformed", "unknown_field", "trailing", "too_large"}
Transcripts == {EmptyStr, <<" ">>, Hi}

handleJSONDecodeError(j) ==
    CASE j = "too_large" -> ErrorResponse(413, "request_too_large", "JSON body too large")
      [] OTHER -> ErrorResponse(400, "invalid_request", "invalid JSON body")

\* handlePostProcess letting a blank transcript through
transcriptRequired_emptyOnly(transcript) == transcript = EmptyStr

\* handlePostProcess: whether the decoded request lacks a transcript
transcriptRequired(transcript) == TrimSpace(transcript) = EmptyStr

handlePostProcess(r) ==
    /\ pc[r] = "handlePostProcess"
    /\ \E j \in JSONOutcomes, t \in Transcripts, p \in BOOLEAN :
          IF j # "ok"
          THEN /\ Respond(r, handleJSONDecodeError(j))
               /\ reqBody' = [reqBody EXCEPT ![r] = [NoInput EXCEPT !.j = j]]
               /\ UNCHANGED <<svc, upCalls, pl>>
          ELSE /\ reqBody' = [reqBody EXCEPT ![r] =
                              [NoInput EXCEPT !.j = j, !.transcript = t, !.debugPrompt = p]]
               /\ IF transcriptRequired(t)
                  THEN /\ Respond(r, ErrorResponse(400, "invalid_request",
                                                    "transcript is required"))
                       /\ UNCHANGED <<svc, upCalls, pl>>
                  ELSE /\ pc' = [pc EXCEPT ![r] = "pp_Process"]
                       /\ svc' = [svc EXCEPT ![r] = Append(@, "PostProcess.Process")]
                       /\ upCalls' = [upCalls EXCEPT ![r] =
                                         StartedCalls(@, "chat_completions", ctxKey[r])]
                       /\ pl' = [pl EXCEPT ![r] =
                                    [NoLocals EXCEPT !.k = "postprocess",
                                                     !.stage = "postprocessing",
                                                     !.includeDebugPrompt = p]]
                       /\ UNCHANGED resp
    /\ UNCHANGED <<cfgKey, in, ctxKey, mw, fallbacks, fnCall>>

postProcessResponse(post) ==
    IF post.err.kind # "nil" THEN writeMappedError(post.err)
    ELSE [status |-> 200, code |-> "",
          body |-> [k |-> "postprocess", transcript |-> post.transcript,
                    status |-> "post-processing succeeded",
                    usage |-> toModelTokenUsage(post.usage)]]

handlePostProcessReturn(r) ==
    /\ pc[r] = "pp_Process"
    /\ \E out \in ChatOutcomes :
          LET post == PostProcessProcess(
                          [IncludeDebugPrompt |-> pl[r].includeDebugPrompt], out)
          IN /\ Delivered(InFlight(upCalls[r]), out)
             /\ upCalls' = [upCalls EXCEPT ![r] =
                               EndedCalls(@, out, ClientChatCompletion(out))]
             /\ pl' = [pl EXCEPT ![r] =
                          [@ EXCEPT !.stage = "returned", !.post = post, !.err = post.err]]
             /\ Respond(r, postProcessResponse(post))
    /\ UNCHANGED <<cfgKey, in, ctxKey, svc, mw, reqBody, fallbacks, fnCall>>

\* the include_debug form values: absent, booleans, not a boolean
DebugValues == {"", "true", "0", "maybe"}

\* parseOptionalBool: ok is false when strconv.ParseBool rejects the value
parseOptionalBool(v) ==
    CASE v = "" -> [value |-> FALSE, ok |-> TRUE]
      [] v \in {"1", "t", "T", "TRUE", "true", "True"} -> [value |-> TRUE, ok |-> TRUE]
      [] v \in {"0", "f", "F", "FALSE", "false", "False"} -> [value |-> FALSE, ok |-> TRUE]
      [] OTHER -> [value |-> FALSE, ok |-> FALSE]

\* handlePipelineProcess up to the transcription stage of Pipeline.Process:
\* the cleanup of the form is deferred after the error check of
\* readMultipartAudio and before include_debug is parsed
handlePipelineProcess(r) ==
    /\ pc[r] = "handlePipelineProcess"
    /\ \E m \in MultipartOutcomes, d \in DebugValues :
          LET form == readMultipartAudio(m)
              includeDebug == parseOptionalBool(d)
          IN IF m # "ok"
             THEN /\ Respond(r, handleMultipartReadError(m))
                  /\ reqBody' = [reqBody EXCEPT ![r] = [NoInput EXCEPT !.m = m, !.form = form]]
                  /\ UNCHANGED <<svc, upCalls, pl>>
             ELSE IF ~includeDebug.ok
             THEN /\ Respond(r, ErrorResponse(400, "invalid_request",
                                               "include_debug must be a boolean"))
                  /\ reqBody' = [reqBody EXCEPT ![r] =
                                 [NoInput EXCEPT !.m = m, !.debug = d,
                                                 !.form = cleanupMultipartForm(form)]]
                  /\ UNCHANGED <<svc, upCalls, pl>>
             ELSE /\ pc' = [pc EXCEPT ![r] = "pipe_Transcribe"]
                  /\ svc' = [svc EXCEPT ![r] =
                                @ \o <<"Pipeline.Process", "Transcription.Transcribe">>]
                  /\ upCalls' = [upCalls EXCEPT ![r] =
                                    StartedCalls(@, "audio_transcriptions", ctxKey[r])]
                  /\ pl' = [pl EXCEPT ![r] =
                               [NoLocals EXCEPT !.k = "pipeline", !.stage = "transcribing",
                                                !.includeDebug = includeDebug.value]]
                  /\ reqBody' = [reqBody EXCEPT ![r] =
                                 [NoInput EXCEPT !.m = m, !.debug = d, !.form = form]]
                  /\ UNCHANGED resp
    /\ UNCHANGED <<cfgKey, in, ctxKey, mw, fallbacks, fnCall>>

pipelineResponse(result) ==
    [status |-> 200, code |-> "",
     body |-> [k |-> "pipeline", raw_transcript |-> result.raw,
               final_transcript |-> result.final,
               post_processing_status |-> result.status,
               post_processing_usage |-> toModelTokenUsage(result.usage)]]

\* handlePipelineProcess counting every result as a fallback
countsAsFallback_always(result) == TRUE

\* handlePipelineProcess: whether a result of Pipeline.Process is counted
\* by IncPipelineFallback
countsAsFallback(result) == result.status = "Post-processing failed, using raw transcript"

\* the transcription stage returns to Pipeline.Process: the pipeline fails
\* with its error, or trims the transcript and calls the post-processor
\* with the debug flag it was given
pipelineTranscribeReturn(r) ==
    /\ pc[r] = "pipe_Transcribe"
    /\ \E out \in TranscribeOutcomes :
          LET tr == TranscriptionTranscribe(out) IN
          /\ Delivered(InFlight(upCalls[r]), out)
          /\ IF ~pipelineContinues(tr)
             THEN /\ upCalls' = [upCalls EXCEPT ![r] =
                                    EndedCalls(@, out, ClientTranscribe(out))]
                  /\ pl' = [pl EXCEPT ![r] =
                               [@ EXCEPT !.stage = "returned", !.tr = tr,
                                         !.result = EmptyResult,
                                         !.err = pipelineError(tr, NoPost)]]
                  /\ Respond(r, writeMappedError(pipelineError(tr, NoPost)))
                  /\ reqBody' = [reqBody EXCEPT ![r].form = cleanupMultipartForm(@)]
                  /\ UNCHANGED svc
             ELSE /\ upCalls' = [upCalls EXCEPT ![r] =
                                    StartedCalls(EndedCalls(@, out, ClientTranscribe(out)),
                                                 "chat_completions", ctxKey[r])]
                  /\ pl' = [pl EXCEPT ![r] =
                               [@ EXCEPT !.stage = "postprocessing", !.tr = tr,
                                         !.result = [EmptyResult EXCEPT
                                                        !.raw = TrimSpace(tr.text)],
                                         !.includeDebugPrompt = pl[r].includeDebug]]
                  /\ svc' = [svc EXCEPT ![r] = Append(@, "PostProcess.Process")]
                  /\ pc' = [pc EXCEPT ![r] = "pipe_PostProcess"]
                  /\ UNCHANGED <<resp, reqBody>>
    /\ UNCHANGED <<cfgKey, in, ctxKey, mw, fallbacks, fnCall>>

\* the post-processing stage returns to Pipeline.Process, which returns its
\* result to handlePipelineProcess: an error is mapped, a fallback result is
\* counted, and the result is written
pipelinePostProcessReturn(r) ==
    /\ pc[r] = "pipe_PostProcess"
    /\ \E out \in ChatOutcomes :
          LET post == PostProcessProcess(
                          [IncludeDebugPrompt |-> pl[r].includeDebugPrompt], out)
              err == pipelineError(pl[r].tr, post)
              result == IF err.kind # "nil" THEN EmptyResult
                        ELSE pipelineResult(pl[r].result.raw, post)
          IN /\ Delivered(InFlight(upCalls[r]), out)
             /\ upCalls' = [upCalls EXCEPT ![r] =
                               EndedCalls(@, out, ClientChatCompletion(out))]
             /\ pl' = [pl EXCEPT ![r] =
                          [@ EXCEPT !.stage = "returned", !.post = post,
                                    !.result = result, !.err = err]]
             /\ IF err.kind # "nil"
                THEN Respond(r, writeMappedError(err)) /\ UNCHANGED fallbacks
                ELSE /\ fallbacks' = IF countsAsFallback(result)
                                     THEN fallbacks + 1 ELSE fallbacks
                     /\ Respond(r, pipelineResponse(result))
    /\ reqBody' = [reqBody EXCEPT ![r].form = cleanupMultipartForm(@)]
    /\ UNCHANGED <<cfgKey, in, ctxKey, svc, mw, fnCall>>

\* the caller of a request goes away while an upstream call is in flight:
\* the server cancels the context of the request
Cancel(r) ==
    /\ pc[r] \in {"readyz_CheckModels", "tr_Transcribe", "pp_Process",
                  "pipe_Transcribe", "pipe_PostProcess"}
    /\ ~InFlight(upCalls[r]).canceled
    /\ upCalls' = [upCalls EXCEPT ![r] =
                      [@ EXCEPT ![Len(@)] = [@ EXCEPT !.canceled = TRUE]]]
    /\ UNCHANGED <<cfgKey, pc, in, ctxKey, resp, svc, pl, mw, reqBody, fallbacks, fnCall>>

\* the response has been sent: the server releases what is left of the
\* request, and the connection takes the next request
Finish(r) ==
    /\ pc[r] = "logged"
    /\ pc' = [pc EXCEPT ![r] = "idle"]
    /\ in' = [in EXCEPT ![r] = NoRequest]
    /\ ctxKey' = [ctxKey EXCEPT ![r] = EmptyStr]
    /\ resp' = [resp EXCEPT ![r] = NoResponse]
    /\ svc' = [svc EXCEPT ![r] = << >>]
    /\ upCalls' = [upCalls EXCEPT ![r] = << >>]
    /\ pl' = [pl EXCEPT ![r] = NoLocals]
    /\ mw' = [mw EXCEPT ![r] = NoMiddleware]
    /\ reqBody' = [reqBody EXCEPT ![r] = NoInput]
    /\ UNCHANGED <<cfgKey, fallbacks, fnCall>>

Init ==
    /\ cfgKey \in ServerKeys
    /\ pc = [r \in Reqs |-> "idle"]
    /\ in = [r \in Reqs |-> NoRequest]
    /\ ctxKey = [r \in Reqs |-> EmptyStr]
    /\ resp = [r \in Reqs |-> NoResponse]
    /\ svc = [r \in Reqs |-> << >>]
    /\ upCalls = [r \in Reqs |-> << >>]
    /\ pl = [r \in Reqs |-> NoLocals]
    /\ mw = [r \in Reqs |-> NoMiddleware]
    /\ reqBody = [r \in Reqs |-> NoInput]
    /\ fallbacks = 0
    /\ fnCall = NoCall

Next ==
    \E r \in Serial :
        \/ Arrive(r)
        \/ requestIDMiddleware(r)
        \/ loggingMiddleware(r)
        \/ recoverMiddleware(r)
        \/ authMiddleware(r)
        \/ Route(r)
        \/ handleHealthz(r)
        \/ metricsRoute(r)
        \/ handleReadyz(r)
        \/ handleReadyzReturn(r)
        \/ handleTranscriptions(r)
        \/ handleTranscriptionsReturn(r)
        \/ handlePostProcess(r)
        \/ handlePostProcessReturn(r)
        \/ handlePipelineProcess(r)
        \/ pipelineTranscribeReturn(r)
        \/ pipelinePostProcessReturn(r)
        \/ Cancel(r)
        \/ Finish(r)

Spec == Init /\ [][Next]_vars

(***************************************************************************)
(* requests served at the same time: two requests to /v1/post-process,     *)
(* each on its own goroutine, their steps interleaved in every order       *)
(***************************************************************************)
ConcurrentRequests ==
    [path : {"/v1/post-process"}, method : {"POST"},
     auth : {AuthAbsent, AuthTokA, AuthTokB}, rid : {EmptyStr, InboundID}]

\* what the upstream does with the chat call of such a request
ConcurrentOutcomes ==
    {Fail("neterr"), Resp(200, ChatBody(<<Hi>>, <<5, 2, 7>>)), Resp(429, RawBody(EmptyStr))}

ConcurrentNext ==
    \E r \in Reqs :
        \/ Arrive(r) /\ in'[r] \in ConcurrentRequests
        \/ requestIDMiddleware(r)
        \/ authMiddleware(r)
        \/ Route(r)
        \/ handlePostProcess(r) /\ reqBody'[r].j = "ok" /\ reqBody'[r].transcript = Hi
        \/ /\ handlePostProcessReturn(r)
           /\ \E out \in ConcurrentOutcomes :
                 upCalls'[r] = EndedCalls(upCalls[r], out, ClientChatCompletion(out))
        \/ loggingMiddleware(r)
        \/ Finish(r)

Concurrent == Init /\ [][ConcurrentNext]_vars

(***************************************************************************)
(* the functions of the client and of the post-processor on their own:     *)
(* an input is drawn, the function is applied to it                        *)
(***************************************************************************)
gatewayVars == <<cfgKey, pc, in, ctxKey, resp, svc, upCalls, pl, mw, reqBody, fallbacks>>

\* n times the character c
Repeat(c, n) == [i \in 1..n |-> c]

\* a body of n characters, the first an A and the last a Z, between lead
\* and trail spaces
PaddedBody(lead, n, trail) ==
    Repeat(" ", lead)
    \o [i \in 1..n |-> IF i = 1 THEN "A" ELSE IF i = n THEN "Z" ELSE "x"]
    \o Repeat(" ", trail)

\* upstream bodies short, empty and around the length truncateBody cuts at
UpstreamBodies ==
    {PaddedBody(lead, n, trail) :
        lead \in {0, 2}, trail \in {0, 2},
        n \in {0, 1, 2} \cup {MaxUpstreamBody + d : d \in -2..4}}

\* the most tokens a vocabulary is made of
MaxVocabularyTokens == 3

VocabularyTokens ==
    {EmptyStr, <<" ">>, <<"A", "l">>, <<"A", "L">>, <<" ", "a", "l">>,
     <<"b", "o", " ">>, <<"B", "o">>}

VocabularySeparators == <<",", "\n", ";">>

\* the tokens with a separator between each two: comma, newline, semicolon
\* in turn
RECURSIVE VocabularyOf(_, _)
VocabularyOf(tokens, i) ==
    IF i > Len(tokens) THEN << >>
    ELSE IF i = Len(tokens) THEN tokens[i]
    ELSE tokens[i] \o <<VocabularySeparators[((i - 1) % 3) + 1]>> \o VocabularyOf(tokens, i + 1)

Vocabularies ==
    {VocabularyOf(ts, 1) :
        ts \in UNION {[1..n -> VocabularyTokens] : n \in 0..MaxVocabularyTokens}}

\* the most pieces a model output is made of
MaxOutputPieces == 5

OutputPieces == {<<" ">>, Quote, <<"h">>, EMPTY}

RECURSIVE Concat(_)
Concat(parts) == IF parts = << >> THEN << >> ELSE Head(parts) \o Concat(Tail(parts))

\* model outputs: up to MaxOutputPieces pieces one after the other
ModelOutputs ==
    {Concat(ps) : ps \in UNION {[1..n -> OutputPieces] : n \in 0..MaxOutputPieces}}

\* the latest time the clock shows
MaxClock == 3

\* the seven readings of a monotonic clock in one call of Process
ClockReadings ==
    {c \in [1..7 -> 0..MaxClock] : \A i \in 1..6 : c[i] <= c[i + 1]}

FnCalls ==
    {[fn |-> "truncateBody", arg |-> b, res |-> EmptyStr, done |-> FALSE] :
        b \in UpstreamBodies}
    \cup {[fn |-> "mergedVocabularyTerms", arg |-> v, res |-> EmptyStr, done |-> FALSE] :
             v \in Vocabularies}
    \cup {[fn |-> "sanitizePostProcessedTranscript", arg |-> o, res |-> EmptyStr,
            done |-> FALSE] : o \in ModelOutputs}
    \cup {[fn |-> "pipelineTimings", arg |-> [clock |-> c, postFailed |-> f],
            res |-> EmptyStr, done |-> FALSE] : c \in ClockReadings, f \in BOOLEAN}

FnInit ==
    /\ cfgKey = EmptyStr
    /\ pc = [r \in Reqs |-> "idle"]
    /\ in = [r \in Reqs |-> NoRequest]
    /\ ctxKey = [r \in Reqs |-> EmptyStr]
    /\ resp = [r \in Reqs |-> NoResponse]
    /\ svc = [r \in Reqs |-> << >>]
    /\ upCalls = [r \in Reqs |-> << >>]
    /\ pl = [r \in Reqs |-> NoLocals]
    /\ mw = [r \in Reqs |-> NoMiddleware]
    /\ reqBody = [r \in Reqs |-> NoInput]
    /\ fallbacks = 0
    /\ fnCall \in FnCalls

ApplyTruncateBody ==
    /\ fnCall.fn = "truncateBody" /\ ~fnCall.done
    /\ fnCall' = [fnCall EXCEPT !.res = truncateBody(fnCall.arg), !.done = TRUE]
    /\ UNCHANGED gatewayVars

ApplyMergedVocabularyTerms ==
    /\ fnCall.fn = "mergedVocabularyTerms" /\ ~fnCall.done
    /\ fnCall' = [fnCall EXCEPT !.res = mergedVocabularyTerms(fnCall.arg), !.done = TRUE]
    /\ UNCHANGED gatewayVars

ApplySanitize ==
    /\ fnCall.fn = "sanitizePostProcessedTranscript" /\ ~fnCall.done
    /\ fnCall' = [fnCall EXCEPT !.res = sanitizePostProcessedTranscript(fnCall.arg),
                                !.done = TRUE]
    /\ UNCHANGED gatewayVars

ApplyPipelineTimings ==
    /\ fnCall.fn = "pipelineTimings" /\ ~fnCall.done
    /\ fnCall' = [fnCall EXCEPT
                      !.res = pipelineTimings(fnCall.arg.clock, fnCall.arg.postFailed),
                      !.done = TRUE]
    /\ UNCHANGED gatewayVars

FnNext ==
    \/ ApplyTruncateBody
    \/ ApplyMergedVocabularyTerms
    \/ ApplySanitize
    \/ ApplyPipelineTimings

Functions == FnInit /\ [][FnNext]_vars

(***************************************************************************)
(* properties                                                              *)
(***************************************************************************)
PublicPaths == {"/healthz", "/readyz", "/metrics"}

\* a header that carries a caller credential: `Bearer <token>` with a
\* non-empty token, surrounding whitespace aside
WellFormedHeaders == {AuthTokA, AuthTokB, AuthPadded}
WellFormed(a) == a \in WellFormedHeaders

\* a header line that is in the request with nothing but whitespace as value
Blank(a) == a \in {AuthEmpty, AuthBlank}

\* authentication has decided on r / has passed r on / has rejected r
AuthDecided(r) == mw[r].auth # "pending"
AuthRejected(r) == mw[r].auth = "rejected"
AuthPassed(r) == mw[r].auth = "passed"

\* Pipeline.Process has returned for r
PipelineReturned(r) == pl[r].k = "pipeline" /\ pl[r].stage = "returned"

ServiceLog(r) == {svc[r][i] : i \in 1..Len(svc[r])}

\* C1: whenever the transcription stage succeeded and the post-processing
\* stage returned an error, Process returns no error and a result whose
\* final transcript equals the raw transcript (the trimmed transcription
\* output), whose status is the fallback literal and whose usage is absent.
C1_FallbackResult ==
    \A r \in Reqs :
        (PipelineReturned(r) /\ pl[r].tr.err.kind = "nil" /\ pl[r].post.err.kind # "nil")
        => /\ pl[r].err = NoErr
           /\ pl[r].result.raw = TrimSpace(pl[r].tr.text)
           /\ pl[r].result.final = pl[r].result.raw
           /\ pl[r].result.status = "Post-processing failed, using raw transcript"
           /\ pl[r].result.usage = NoUsage

C1_Witness ==
    \E r \in Reqs :
        /\ PipelineReturned(r) /\ pl[r].tr.err.kind = "nil"
        /\ pl[r].post.err.kind = "upstream"
        /\ pl[r].result.raw = Hi
        /\ pc[r] = "done" /\ resp[r].status = 200

\* C2: in every result Process returns without error, the final transcript
\* is empty only if the raw transcript is empty.
C2_FinalEmptyOnlyIfRawEmpty ==
    \A r \in Reqs :
        (PipelineReturned(r) /\ pl[r].err = NoErr)
        => (pl[r].result.final = EmptyStr => pl[r].result.raw = EmptyStr)

\* C3: whenever both stages succeed, the status is the success literal, the
\* final transcript is the post-processor's cleaned text and the usage is
\* the post-processor's usage, unchanged (absent when it returned none).
C3_SuccessResult ==
    \A r \in Reqs :
        (PipelineReturned(r) /\ pl[r].tr.err.kind = "nil" /\ pl[r].post.err.kind = "nil")
        => /\ pl[r].err = NoErr
           /\ pl[r].result.status = "Post-processing succeeded"
           /\ pl[r].result.final = pl[r].post.transcript
           /\ pl[r].result.usage = pl[r].post.usage

C3_Witness ==
    \E r \in Reqs :
        /\ PipelineReturned(r) /\ pl[r].tr.err.kind = "nil" /\ pl[r].post.err.kind = "nil"
        /\ pl[r].result.usage = <<5, 2, 7>>
        /\ pl[r].result.final = Hi

\* C4: within a pipeline request the post-processor is invoked only after
\* the transcription stage has returned successfully, the two upstream calls
\* never overlap, and a failed transcription makes the pipeline return that
\* error with an empty result without invoking the post-processor.
C4_StagesInSequence ==
    \A r \in Reqs :
        pl[r].k = "pipeline"
        => /\ "PostProcess.Process" \in ServiceLog(r)
                 => /\ pl[r].stage \in {"postprocessing", "returned"}
                    /\ pl[r].tr.err.kind = "nil"
                    /\ Len(upCalls[r]) = 2
                    /\ upCalls[r][1].ep = "audio_transcriptions" /\ upCalls[r][1].done
                    /\ upCalls[r][2].ep = "chat_completions"
           /\ pl[r].stage = "transcribing"
                 => /\ "PostProcess.Process" \notin ServiceLog(r)
                    /\ Len(upCalls[r]) = 1
           /\ (pl[r].stage = "returned" /\ pl[r].tr.err.kind # "nil")
                 => /\ pl[r].err = pl[r].tr.err
                    /\ pl[r].result = EmptyResult
                    /\ "PostProcess.Process" \notin ServiceLog(r)
                    /\ Len(upCalls[r]) = 1

C4_Witness ==
    \E r \in Reqs :
        /\ PipelineReturned(r) /\ pl[r].tr.err.kind = "upstream"
        /\ pc[r] = "done" /\ resp[r].status = 502

\* C5: a request to /healthz, /readyz or /metrics is never rejected by the
\* authentication middleware, whatever its Authorization header and the
\* server configuration.
C5_PublicPathsNeverRejected ==
    \A r \in Reqs : in[r].path \in PublicPaths => ~AuthRejected(r)

\* C6 as stated: on a non-public path authentication passes the request on
\* iff the header is a well-formed bearer credential, or the header is
\* absent and a fallback is configured; every rejection is a 401 and invokes
\* no handler or service.
C6_AuthDecisionAsStated ==
    \A r \in Reqs :
        (AuthDecided(r) /\ in[r].path \notin PublicPaths)
        => /\ AuthPassed(r) <=> \/ WellFormed(in[r].auth)
                                \/ (~in[r].auth.has /\ cfgKey # EmptyStr)
           /\ AuthRejected(r) => (resp[r].status = 401 /\ svc[r] = << >>
                                  /\ upCalls[r] = << >>)

\* C6 amended: on a non-public path authentication passes the request on
\* iff the header is a well-formed bearer credential, or the header is
\* absent or blank (an empty or whitespace-only value) and a fallback is
\* configured; a present, non-blank, malformed header is rejected with 401
\* even with a fallback, an absent or blank header without a fallback is
\* rejected with 401, and a rejection invokes no handler or service.
C6_AuthDecision ==
    \A r \in Reqs :
        (AuthDecided(r) /\ in[r].path \notin PublicPaths)
        => /\ AuthPassed(r) <=> \/ WellFormed(in[r].auth)
                                \/ /\ (~in[r].auth.has \/ Blank(in[r].auth))
                                   /\ cfgKey # EmptyStr
           /\ AuthRejected(r) => (resp[r].status = 401 /\ svc[r] = << >>
                                  /\ upCalls[r] = << >>)

C6_Witness ==
    \E r \in Reqs :
        /\ in[r].path = "/v1/post-process" /\ in[r].auth = AuthBlank
        /\ cfgKey # EmptyStr
        /\ "handlePostProcess" \in ServiceLog(r)

\* the credential authentication validated for r, "" when none was supplied
CallerCredential(r) == ctxKey[r]

\* C7: every upstream call carries the caller credential validated for the
\* request when one was supplied, and the server fallback otherwise.
C7_CallerCredentialTakesPrecedence ==
    \A r \in Reqs : \A i \in 1..Len(upCalls[r]) :
        upCalls[r][i].auth =
            BearerPrefix \o (IF CallerCredential(r) # EmptyStr
                             THEN CallerCredential(r) ELSE cfgKey)

\* C8: a request without a caller credential, on a server without a
\* fallback credential, never makes an upstream call.
C8_NoCredentialNoUpstreamCall ==
    \A r \in Reqs :
        (cfgKey = EmptyStr /\ ~WellFormed(in[r].auth)) => upCalls[r] = << >>

C8_Witness ==
    \E r \in Reqs :
        /\ cfgKey = EmptyStr /\ in[r].auth = AuthAbsent
        /\ in[r].path = "/readyz" /\ in[r].method = "GET"
        /\ pc[r] = "done" /\ resp[r].status = 200

\* C9: a GET /readyz without any credential (caller or fallback) is
\* answered 200 {ok:true} without a CheckModels call; any other GET /readyz
\* makes exactly one CheckModels call and is answered 200 when it succeeds
\* and 503 not_ready when it fails.
C9_Readyz ==
    \A r \in Reqs :
        (in[r].path = "/readyz" /\ in[r].method = "GET" /\ pc[r] = "done"
         /\ ~mw[r].panicked)
        => IF cfgKey = EmptyStr /\ ~WellFormed(in[r].auth)
           THEN /\ resp[r].status = 200 /\ resp[r].body = [k |-> "ready", ok |-> TRUE]
                /\ upCalls[r] = << >>
           ELSE /\ Len(upCalls[r]) = 1 /\ upCalls[r][1].ep = "models"
                /\ pl[r].err.kind = "nil" => resp[r].status = 200
                /\ pl[r].err.kind # "nil"
                      => (resp[r].status = 503 /\ resp[r].code = "not_ready")

\* The same statement for the requests authentication passed on to
\* handleReadyz: it holds, so the 401 of authMiddleware is the only way a
\* GET /readyz departs from it.
ReadyzHandlerBehaviour ==
    \A r \in Reqs :
        (in[r].path = "/readyz" /\ in[r].method = "GET" /\ pc[r] = "done"
         /\ "handleReadyz" \in ServiceLog(r) /\ ~mw[r].panicked)
        => IF cfgKey = EmptyStr /\ ~WellFormed(in[r].auth)
           THEN /\ resp[r].status = 200 /\ resp[r].body = [k |-> "ready", ok |-> TRUE]
                /\ upCalls[r] = << >>
           ELSE /\ Len(upCalls[r]) = 1 /\ upCalls[r][1].ep = "models"
                /\ pl[r].err.kind = "nil" => resp[r].status = 200
                /\ pl[r].err.kind # "nil"
                      => (resp[r].status = 503 /\ resp[r].code = "not_ready")

\* C10: every upstream call that has returned has invoked the observer
\* exactly once, with the HTTP status of the response when one was
\* received and 0 when the call never completed.
C10_ObserverOncePerCallWithStatus ==
    \A r \in Reqs : \A i \in 1..Len(upCalls[r]) :
        upCalls[r][i].done
        => /\ Len(upCalls[r][i].obs) = 1
           /\ upCalls[r][i].obs[1] = upCalls[r][i].got

\* the upstream calls of r that have returned
ReturnedCalls(r) == {i \in 1..Len(upCalls[r]) : upCalls[r][i].done}

\* the upstream answered the call with a status (the round trip did not fail)
Answered(call) == call.done /\ call.got # 0

Is2xx(status) == status >= 200 /\ status <= 299

\* C11: for each of Transcribe, ChatCompletion and CheckModels, whenever
\* the upstream answers with a status outside 200-299 the call fails with
\* an UpstreamError whose StatusCode is the status the upstream sent.
C11_NonSuccessIsUpstreamError ==
    \A r \in Reqs : \A i \in ReturnedCalls(r) :
        (Answered(upCalls[r][i]) /\ ~Is2xx(upCalls[r][i].got))
        => /\ upCalls[r][i].ret.err.kind = "upstream"
           /\ upCalls[r][i].ret.err.status = upCalls[r][i].got

\* The same statement for the responses whose body the client could read
\* to the end: it holds, so a failed read of the body of an error response
\* in Transcribe and ChatCompletion is the only way a call departs from it.
NonSuccessReadableIsUpstreamError ==
    \A r \in Reqs : \A i \in ReturnedCalls(r) :
        (Answered(upCalls[r][i]) /\ ~Is2xx(upCalls[r][i].got)
         /\ upCalls[r][i].payload.k # "readerr")
        => /\ upCalls[r][i].ret.err.kind = "upstream"
           /\ upCalls[r][i].ret.err.status = upCalls[r][i].got

\* C12: for each of Transcribe, ChatCompletion and CheckModels, a response
\* with a status in 200-299 is treated as a success response and is never
\* reported as an UpstreamError.
C12_Every2xxIsSuccess ==
    \A r \in Reqs : \A i \in ReturnedCalls(r) :
        (Answered(upCalls[r][i]) /\ Is2xx(upCalls[r][i].got))
        => upCalls[r][i].ret.err.kind # "upstream"

IsLineBreak(c) == c \in {"\n", "\r"}

\* s with every run of newline / carriage-return characters replaced by one
\* space; inRun says whether the character before s was part of such a run
RECURSIVE CollapseFrom(_, _)
CollapseFrom(s, inRun) ==
    IF s = << >> THEN << >>
    ELSE IF IsLineBreak(Head(s))
         THEN (IF inRun THEN << >> ELSE <<" ">>) \o CollapseFrom(Tail(s), TRUE)
    ELSE <<Head(s)>> \o CollapseFrom(Tail(s), FALSE)

\* the plain-text interpretation of a body
PlainInterpretation(data) == TrimSpace(CollapseFrom(data, FALSE))

\* the calls of Transcribe that got a 200 response and read its body
TranscribeSuccessResponses(r) ==
    {i \in ReturnedCalls(r) :
        /\ upCalls[r][i].ep = "audio_transcriptions"
        /\ upCalls[r][i].got = 200
        /\ upCalls[r][i].payload.k = "transcript"}

\* C14: Transcribe on a success response returns the JSON `text` field when
\* the body is a JSON object with a non-empty text, and otherwise the whole
\* body with every run of newline / carriage-return characters collapsed to
\* one space and trimmed; it fails with a parse error iff both are empty; a
\* successful Transcribe never returns the empty string.
C14_TranscriptParsing ==
    \A r \in Reqs : \A i \in TranscribeSuccessResponses(r) :
        LET body == upCalls[r][i].payload
            ret == upCalls[r][i].ret
            jsonText == IF body.json THEN body.text ELSE EmptyStr
            plain == PlainInterpretation(body.data)
        IN /\ jsonText # EmptyStr => (ret.err = NoErr /\ ret.text = jsonText)
           /\ (jsonText = EmptyStr /\ plain # EmptyStr)
                 => (ret.err = NoErr /\ ret.text = plain)
           /\ ret.err.kind = "parse" <=> (jsonText = EmptyStr /\ plain = EmptyStr)
           /\ ret.err = NoErr => ret.text # EmptyStr

C14_Witness ==
    \E r \in Reqs : \E i \in TranscribeSuccessResponses(r) :
        /\ ~upCalls[r][i].payload.json
        /\ Len(upCalls[r][i].payload.data) > 6
        /\ upCalls[r][i].ret.text = Hi \o <<" ">> \o Yo

\* the calls of ChatCompletion that got a 200 response and read its body
ChatSuccessResponses(r) ==
    {i \in ReturnedCalls(r) :
        /\ upCalls[r][i].ep = "chat_completions"
        /\ upCalls[r][i].got = 200
        /\ upCalls[r][i].payload.k = "chat"}

\* C15: ChatCompletion on a success response fails unless the payload has
\* at least one choice and the message content of the first choice is
\* non-empty; when it succeeds the content it returns is exactly that of
\* the first choice.
C15_ChatParsing ==
    \A r \in Reqs : \A i \in ChatSuccessResponses(r) :
        LET body == upCalls[r][i].payload
            ret == upCalls[r][i].ret
        IN /\ ret.err = NoErr <=> /\ body.valid
                                  /\ Len(body.choices) >= 1
                                  /\ body.choices[1] # EmptyStr
           /\ ret.err = NoErr => ret.resp.content = body.choices[1]
           /\ ret.err # NoErr => ret.resp = NoChat

C15_Witness ==
    \E r \in Reqs : \E i \in ChatSuccessResponses(r) :
        /\ upCalls[r][i].payload.choices = <<Yo, Hi>>
        /\ upCalls[r][i].ret.err = NoErr
        /\ upCalls[r][i].ret.resp.content = Yo

\* the responses that report the result of a chat completion: 200 of
\* /v1/post-process, and 200 of /v1/pipeline/process with the success status
ReportsPostProcessing(r) ==
    /\ pc[r] = "done" /\ resp[r].status = 200
    /\ \/ resp[r].body.k = "postprocess"
       \/ /\ resp[r].body.k = "pipeline"
          /\ resp[r].body.post_processing_status = "Post-processing succeeded"

ReportedUsage(r) ==
    IF resp[r].body.k = "postprocess" THEN resp[r].body.usage
    ELSE resp[r].body.post_processing_usage

\* C16: the usage a gateway response reports for a chat completion is the
\* usage object of the upstream chat payload: present iff the payload had
\* one, with the same three counts (all zeros stay zeros), and absent when
\* the payload had none.
C16_UsagePreserved ==
    \A r \in Reqs :
        ReportsPostProcessing(r)
        => LET call == upCalls[r][Len(upCalls[r])] IN
           /\ call.ep = "chat_completions" /\ call.ret.err = NoErr
           /\ ReportedUsage(r) = call.payload.usage
           /\ ReportedUsage(r) = NoUsage <=> call.payload.usage = NoUsage

C16_Witness ==
    \E r \in Reqs :
        /\ ReportsPostProcessing(r) /\ resp[r].body.k = "pipeline"
        /\ upCalls[r][2].payload.usage = <<0, 0, 0>>
        /\ ReportedUsage(r) = <<0, 0, 0>>

\* the function fn has been applied to its input
Applied(fn) == fnCall.fn = fn /\ fnCall.done

Ellipsis == <<".", ".", ".">>

\* C13 as stated: the body excerpt of an UpstreamError is the upstream body
\* itself when that has at most 4096 characters, and otherwise its first
\* 4096 characters with an ellipsis appended.
C13_BodyCapAsStated ==
    Applied("truncateBody")
    => IF Len(fnCall.arg) <= 4096 THEN fnCall.res = fnCall.arg
       ELSE fnCall.res = SubSeq(fnCall.arg, 1, 4096) \o Ellipsis

\* C13 amended: the body excerpt of an UpstreamError is made from the
\* upstream body without its leading and trailing whitespace: that text
\* itself when it has at most 4096 characters, and otherwise its first 4096
\* characters with an ellipsis appended, for every body length.
C13_BodyCap ==
    Applied("truncateBody")
    => LET body == TrimSpace(fnCall.arg) IN
       /\ Len(body) <= 4096 => fnCall.res = body
       /\ Len(body) > 4096
             => /\ Len(fnCall.res) = 4096 + 3
                /\ \A i \in 1..4096 : fnCall.res[i] = body[i]
                /\ \A i \in 1..3 : fnCall.res[4096 + i] = "."

C13_Witness ==
    /\ Applied("truncateBody")
    /\ Len(TrimSpace(fnCall.arg)) = 4097
    /\ Len(fnCall.res) = 4099
    /\ fnCall.res[4096] = "x" /\ fnCall.res[4097] = "."

\* the tokens of a vocabulary: what lies between newlines, commas and
\* semicolons, trimmed, the empty ones left out
VocabularyFields(v) == FieldsFunc(v, {"\n", ",", ";"})

TrimmedTokens(v) ==
    LET fields == VocabularyFields(v)
        trimmed == [i \in 1..Len(fields) |-> TrimSpace(fields[i])]
    IN SelectSeq(trimmed, LAMBDA t : t # EmptyStr)

SameIgnoringCase(a, b) == ToLower(a) = ToLower(b)

\* the positions of the tokens that no earlier token equals ignoring case
FirstOccurrences(tokens) ==
    {i \in 1..Len(tokens) : \A j \in 1..(i - 1) : ~SameIgnoringCase(tokens[j], tokens[i])}

\* C17: the result of mergedVocabularyTerms is the sequence of the
\* non-empty trimmed tokens of the vocabulary (split on newline, comma,
\* semicolon) in input order, keeping of the tokens equal ignoring case
\* only the first, in its original casing; no two terms of the result are
\* equal ignoring case.
C17_VocabularyTerms ==
    Applied("mergedVocabularyTerms")
    => LET tokens == TrimmedTokens(fnCall.arg)
           first == FirstOccurrences(tokens)
           terms == fnCall.res
       IN /\ Len(terms) = Cardinality(first)
          /\ \A i \in first :
                terms[Cardinality({j \in first : j < i}) + 1] = tokens[i]
          /\ \A a, b \in 1..Len(terms) :
                a # b => ~SameIgnoringCase(terms[a], terms[b])

C17_Witness ==
    /\ Applied("mergedVocabularyTerms")
    /\ fnCall.arg = <<"b", "o", " ", ",", "A", "L", "\n", " ", "a", "l">>
    /\ fnCall.res = << <<"b", "o">>, <<"A", "L">> >>

\* text wrapped in a matching pair of double quotes
Wrapped(t) == Len(t) >= 2 /\ t[1] = "\"" /\ t[Len(t)] = "\""

\* text with no surrounding whitespace, not wrapped in double quotes and
\* not the literal EMPTY
Clean(t) == TrimSpace(t) = t /\ ~Wrapped(t) /\ t # EMPTY

\* C18 as stated: sanitizePostProcessedTranscript trims whitespace, then
\* removes one layer of surrounding double quotes when the text is wrapped
\* in a matching pair, then maps the literal EMPTY to the empty string; it
\* is the identity on clean text.
C18_SanitizeAsStated ==
    Applied("sanitizePostProcessedTranscript")
    => LET trimmed == TrimSpace(fnCall.arg)
           unquoted == IF Wrapped(trimmed) THEN SubSeq(trimmed, 2, Len(trimmed) - 1)
                       ELSE trimmed
       IN /\ fnCall.res = IF unquoted = EMPTY THEN EmptyStr ELSE unquoted
          /\ Clean(fnCall.arg) => fnCall.res = fnCall.arg

\* C18 amended: sanitizePostProcessedTranscript trims whitespace, then,
\* when the text is wrapped in a matching pair of double quotes, removes
\* exactly one layer of them and trims whitespace again, then maps the
\* literal EMPTY to the empty string; it is the identity on clean text.
C18_Sanitize ==
    Applied("sanitizePostProcessedTranscript")
    => LET trimmed == TrimSpace(fnCall.arg)
           unquoted == IF Wrapped(trimmed)
                       THEN TrimSpace(SubSeq(trimmed, 2, Len(trimmed) - 1))
                       ELSE trimmed
       IN /\ fnCall.res = IF unquoted = EMPTY THEN EmptyStr ELSE unquoted
          /\ Clean(fnCall.arg) => fnCall.res = fnCall.arg

C18_Witness ==
    /\ Applied("sanitizePostProcessedTranscript")
    /\ fnCall.arg = <<" ", "\"", "\"", "h", "\"">>
    /\ fnCall.res = <<"\"", "h">>

\* a response has been written for r
Responded(r) == pc[r] \in {"done", "logged"}

\* C19: every response of the gateway, whichever layer wrote it, carries a
\* non-empty X-Request-Id header: the trimmed inbound X-Request-Id when
\* that is non-empty, a freshly generated identifier otherwise; the
\* request_id of every error envelope is that header value.
C19_RequestID ==
    \A r \in Reqs :
        Responded(r)
        => LET inbound == TrimSpace(in[r].rid) IN
           /\ resp[r].xRequestID # EmptyStr
           /\ inbound # EmptyStr => (resp[r].xRequestID = inbound /\ mw[r].fresh = EmptyStr)
           /\ inbound = EmptyStr
                 => (resp[r].xRequestID = mw[r].fresh /\ mw[r].fresh \in GeneratedIDs)
           /\ resp[r].body.k = "error" => resp[r].body.request_id = resp[r].xRequestID

C19_Witness ==
    \E r \in Reqs :
        /\ pc[r] = "done" /\ mw[r].panicked
        /\ in[r].rid = <<" ">> \o InboundID \o <<" ">>
        /\ resp[r].xRequestID = InboundID
        /\ resp[r].body.request_id = InboundID

\* C20: a panic raised during authentication, route dispatch, a handler or
\* a service call is recovered: the request ends with a 500 response whose
\* envelope has the code internal_error, the generic message, no details
\* and the request id, and the access log records the request with that
\* status.
C20_PanicContained ==
    \A r \in Reqs :
        mw[r].panicked
        => /\ Responded(r)
           /\ resp[r].status = 500 /\ resp[r].code = "internal_error"
           /\ resp[r].body = [k |-> "error", message |-> "internal server error",
                              details |-> NoDetails, request_id |-> mw[r].rid]
           /\ mw[r].rid # EmptyStr
           /\ pc[r] = "logged"
                 => mw[r].log = <<[request_id |-> mw[r].rid, method |-> in[r].method,
                                   path |-> in[r].path, status |-> 500]>>

C20_Witness ==
    \E r \in Reqs :
        /\ mw[r].panicked /\ pc[r] = "logged"
        /\ pl[r].k = "pipeline" /\ pl[r].stage = "postprocessing"
        /\ Len(mw[r].log) = 1 /\ mw[r].log[1].status = 500

\* a handler of a /v1 endpoint called its service for r and the service
\* has returned
ServiceReturned(r) ==
    /\ Responded(r) /\ ~mw[r].panicked
    /\ pl[r].k \in {"transcription", "postprocess", "pipeline"}
    /\ pl[r].stage = "returned"

\* C21: an error a service returns to its handler is answered in exactly
\* one class: an UpstreamError with 502 upstream_request_failed and the
\* upstream status (and the body, when there is one) in the details, a
\* deadline with 504 timeout, a cancellation with 499 canceled, any other
\* error with 500 internal_error; so a timeout is never answered as an
\* upstream failure or a cancellation, nor a cancellation as a timeout.
C21_ErrorMapping ==
    \A r \in Reqs :
        (ServiceReturned(r) /\ pl[r].err.kind # "nil")
        => LET e == pl[r].err
               d == resp[r].body.details
           IN /\ resp[r].body.k = "error" /\ d.k = "details"
              /\ e.kind = "upstream"
                    => /\ resp[r].status = 502 /\ resp[r].code = "upstream_request_failed"
                       /\ d.upstream_status = e.status
                       /\ e.body # EmptyStr => d.upstream_body = e.body
              /\ e.kind = "deadline" => (resp[r].status = 504 /\ resp[r].code = "timeout")
              /\ e.kind = "canceled" => (resp[r].status = 499 /\ resp[r].code = "canceled")
              /\ e.kind \notin {"upstream", "deadline", "canceled"}
                    => (resp[r].status = 500 /\ resp[r].code = "internal_error")

C21_Witness ==
    \E r \in Reqs :
        /\ ServiceReturned(r) /\ pl[r].k = "postprocess"
        /\ pl[r].err.kind = "canceled" /\ upCalls[r][1].canceled
        /\ resp[r].status = 499 /\ resp[r].code = "canceled"

\* C22: in the handlers of /v1/transcriptions and /v1/pipeline/process a
\* multipart form that parsing produced has been released when the handler
\* has returned, whichever way it returned.
C22_FormsReleased ==
    \A r \in Reqs : Responded(r) => reqBody[r].form # "open"

\* the same for the requests whose form has a `file` part
FormsWithFileReleased ==
    \A r \in Reqs :
        (Responded(r) /\ reqBody[r].m = "ok") => reqBody[r].form = "released"

\* the texts strconv.ParseBool accepts
BooleanTexts ==
    {"1", "t", "T", "TRUE", "true", "True", "0", "f", "F", "FALSE", "false", "False"}

\* the response is an error envelope of the gateway's own validation
AnsweredLocally(r, statuses) ==
    /\ resp[r].body.k = "error" /\ resp[r].status \in statuses
    /\ resp[r].code \in {"invalid_request", "request_too_large"}
    /\ upCalls[r] = << >>

Endpoints(r) == [i \in 1..Len(upCalls[r]) |-> upCalls[r][i].ep]

\* C24: no upstream call is made a second time: /v1/transcriptions makes
\* at most one transcription call, /v1/post-process at most one chat call,
\* /v1/pipeline/process at most one transcription call followed by at most
\* one chat call, whatever the calls return.
C24_NoRetry ==
    \A r \in Reqs :
        /\ in[r].path = "/v1/transcriptions"
              => Endpoints(r) \in {<< >>, <<"audio_transcriptions">>}
        /\ in[r].path = "/v1/post-process"
              => Endpoints(r) \in {<< >>, <<"chat_completions">>}
        /\ in[r].path = "/v1/pipeline/process"
              => Endpoints(r) \in {<< >>, <<"audio_transcriptions">>,
                                   <<"audio_transcriptions", "chat_completions">>}

C24_Witness ==
    \E r \in Reqs :
        /\ pc[r] = "logged" /\ in[r].path = "/v1/pipeline/process"
        /\ Endpoints(r) = <<"audio_transcriptions", "chat_completions">>
        /\ upCalls[r][2].done /\ upCalls[r][2].ret.err.kind = "neterr"

\* C25: the context of every upstream call is a child of the context of
\* the inbound request, so a call in flight when the inbound request is
\* canceled is abandoned: it returns the cancellation and no response.
C25_CancellationReachesCalls ==
    \A r \in Reqs :
        \A i \in 1..Len(upCalls[r]) :
            LET call == upCalls[r][i] IN
            /\ call.cx.parent = RequestContext
            /\ (call.done /\ call.canceled)
                  => (call.got = 0 /\ call.ret.err.kind = "canceled")

C25_Witness ==
    \E r \in Reqs :
        /\ pc[r] = "done" /\ in[r].path = "/v1/pipeline/process"
        /\ Len(upCalls[r]) = 2
        /\ upCalls[r][2].ep = "chat_completions"
        /\ upCalls[r][2].canceled /\ upCalls[r][2].done
        /\ upCalls[r][2].ret.err.kind = "canceled"

\* what the upstream did with a call that has returned
Outcome(call) ==
    IF call.got = 0 THEN Fail(call.ret.err.kind) ELSE Resp(call.got, call.payload)

\* the response as the handler chain writes it for r
Written(r, rsp) ==
    IF rsp.body.k = "error" THEN writeError(rsp, mw[r].rid, mw[r].hdr)
    ELSE writeJSON(rsp, mw[r].hdr)

\* the answer of /v1/post-process to r had the flag been debugPrompt
PostProcessAnswer(r, debugPrompt) ==
    Written(r, postProcessResponse(
                   PostProcessProcess([IncludeDebugPrompt |-> debugPrompt],
                                      Outcome(upCalls[r][1]))))

\* the answer of /v1/pipeline/process to r had the flag been includeDebug
PipelineAnswer(r, includeDebug) ==
    LET tr == TranscriptionTranscribe(Outcome(upCalls[r][1])) IN
    IF Len(upCalls[r]) = 1 THEN Written(r, writeMappedError(tr.err))
    ELSE Written(r, pipelineResponse(
                        pipelineResult(TrimSpace(tr.text),
                                       PostProcessProcess(
                                           [IncludeDebugPrompt |-> includeDebug],
                                           Outcome(upCalls[r][2])))))

\* C27: the debug flag reaches the services as it was sent and has no
\* part in the response: a request to /v1/post-process or to
\* /v1/pipeline/process is answered as the request that differs from it in
\* the value of the flag only is.
C27_DebugFlagIgnored ==
    \A r \in Reqs :
        ServiceReturned(r)
        => /\ pl[r].k = "postprocess"
                 => /\ pl[r].includeDebugPrompt = reqBody[r].debugPrompt
                    /\ \A flag \in BOOLEAN : resp[r] = PostProcessAnswer(r, flag)
           /\ pl[r].k = "pipeline"
                 => /\ reqBody[r].debug \in BooleanTexts \cup {""}
                    /\ pl[r].includeDebug
                          = (reqBody[r].debug \in {"1", "t", "T", "TRUE", "true", "True"})
                    /\ Len(upCalls[r]) = 2
                          => pl[r].includeDebugPrompt = pl[r].includeDebug
                    /\ \A flag \in BOOLEAN : resp[r] = PipelineAnswer(r, flag)

C27_Witness ==
    \E r \in Reqs :
        /\ ServiceReturned(r) /\ pl[r].k = "pipeline"
        /\ reqBody[r].debug = "true" /\ pl[r].includeDebugPrompt
        /\ resp[r].status = 200 /\ resp[r].body.final_transcript = Hi
        /\ resp[r] = PipelineAnswer(r, FALSE)

\* C28: in the timings of every result of Process, on the success and on
\* the fallback path, the total spans the whole call: with a monotonic
\* clock it is at least the transcription duration plus the
\* post-processing duration, and it reaches from the start of the call to
\* the end of the post-processing stage or later.
C28_TotalSpansCall ==
    Applied("pipelineTimings")
    => LET clock == fnCall.arg.clock
           t == fnCall.res
       IN /\ t.total >= t.transcription + t.postprocessing
          /\ t.total >= clock[5] - clock[1]

C28_Witness ==
    /\ Applied("pipelineTimings") /\ fnCall.arg.postFailed
    /\ fnCall.res.transcription = 1 /\ fnCall.res.postprocessing = 1
    /\ fnCall.res.total = 3

\* C29: on /v1/pipeline/process every error of the post-processing stage,
\* its deadline and the cancellation of the inbound request after the
\* transcription included, ends in the fallback result and a 200; the
\* endpoint answers 502, 504 or 499 only when the transcription stage
\* failed that way.
C29_PostProcessErrorsAbsorbed ==
    \A r \in Reqs :
        (ServiceReturned(r) /\ pl[r].k = "pipeline")
        => /\ pl[r].tr.err.kind = "nil"
                 => /\ resp[r].status = 200
                    /\ pl[r].post.err.kind # "nil"
                          => /\ resp[r].body.post_processing_status = StatusFailed
                             /\ resp[r].body.final_transcript
                                   = resp[r].body.raw_transcript
           /\ resp[r].status = 502 => pl[r].tr.err.kind = "upstream"
           /\ resp[r].status = 504 => pl[r].tr.err.kind = "deadline"
           /\ resp[r].status = 499 => pl[r].tr.err.kind = "canceled"

C29_Witness ==
    \E r \in Reqs :
        /\ ServiceReturned(r) /\ pl[r].k = "pipeline"
        /\ pl[r].tr.err.kind = "nil" /\ pl[r].post.err.kind = "canceled"
        /\ upCalls[r][2].canceled
        /\ resp[r].status = 200
        /\ resp[r].body.post_processing_status = StatusFailed

\* this step writes the response of /v1/pipeline/process to r with the
\* fallback status
FallbackAnswered(r) ==
    /\ pc[r] # "done" /\ pc'[r] = "done"
    /\ in[r].path = "/v1/pipeline/process"
    /\ resp'[r].body.k = "pipeline"
    /\ resp'[r].body.post_processing_status = StatusFailed

\* C30: the pipeline-fallback counter, zero at the start, goes up by one in
\* the step that answers /v1/pipeline/process with the fallback status, and
\* in no other step: it counts those responses, and none of a pipeline
\* failure, a success or another endpoint.
C30_FallbackCounter ==
    [][fallbacks' = fallbacks + Cardinality({r \in Reqs : FallbackAnswered(r)})]_vars

C30_Witness ==
    \E r \in Reqs :
        /\ pc[r] = "done" /\ fallbacks = 2
        /\ resp[r].body.k = "pipeline"
        /\ resp[r].body.post_processing_status = StatusFailed

\* what is r's own: its request, what its handler read of it, the request
\* id generated for it, and what the upstream did with its calls
OwnInputs(r) ==
    <<pc[r], in[r], reqBody[r], mw[r].fresh,
      [i \in 1..Len(upCalls[r]) |->
          <<upCalls[r][i].ep, upCalls[r][i].done, upCalls[r][i].got,
            upCalls[r][i].payload, upCalls[r][i].ret>>]>>

\* the state of the server that belongs to r
OwnState(r) == <<pc[r], in[r], ctxKey[r], resp[r], svc[r], upCalls[r], pl[r], mw[r], reqBody[r]>>

\* the credential in r's own Authorization header
OwnCredential(r) == extractBearerToken(HeaderGet(in[r].auth)).token

Isolated ==
    /\ \A r \in Reqs :
          /\ ctxKey[r] \in {EmptyStr, OwnCredential(r)}
          /\ \A i \in 1..Len(upCalls[r]) :
                upCalls[r][i].auth \in {BearerPrefix \o TrimSpace(cfgKey),
                                        BearerPrefix \o OwnCredential(r)}
    /\ \A r1, r2 \in Reqs :
          OwnInputs(r1) = OwnInputs(r2)
          => /\ resp[r1] = resp[r2]
             /\ ctxKey[r1] = ctxKey[r2]
             /\ \A i \in 1..Len(upCalls[r1]) : upCalls[r1][i].auth = upCalls[r2][i].auth

\* a step leaves alone what belongs to the requests that do not take it
OthersUntouched ==
    /\ cfgKey' = cfgKey
    /\ \A r1, r2 \in Reqs :
          (r1 # r2 /\ OwnState(r1)' # OwnState(r1)) => OwnState(r2)' = OwnState(r2)

\* C26: requests served at the same time are isolated under every
\* interleaving of their steps: the response of a request and the
\* credential of its upstream calls are determined by its own inputs and
\* the configuration, the caller credential of one request is never in the
\* context or on the calls of another, and no step of a request changes
\* what belongs to another request or the configuration.
C26_RequestsIsolated == []Isolated /\ [][OthersUntouched]_vars

C26_Witness ==
    /\ pc["r1"] = "done" /\ pc["r2"] = "pp_Process"
    /\ in["r1"].auth = AuthTokA /\ in["r2"].auth = AuthTokB
    /\ ctxKey["r1"] = TokA /\ ctxKey["r2"] = TokB
    /\ resp["r1"].status = 200
    /\ Len(upCalls["r2"]) = 1 /\ ~upCalls["r2"][1].done

====
